---- MODULE Spec2Model ----
(***************************************************************************)
(* Model of the execution engine of MOT (mot/lib/cl_processors.py):        *)
(* MultiDeviceProcessor and ProcessBatch, the host program that calls     *)
(* them, and the OpenCL device side (events of data transfers and kernel   *)
(* launches) they enqueue work on; and of the discovery of the             *)
(* environments (mot/cl_environments.py): CLEnvironmentFactory and the    *)
(* memory flags of a CLEnvironment.                                        *)
(***************************************************************************)
EXTENDS Integers, Sequences, FiniteSets, TLC

\* ------------------------------------------------------------------------
\* Bounds of the model
\* ------------------------------------------------------------------------
MaxEnvs == 2
MaxInstances == 2
MaxLaunches == 2
MaxCalls == 1
MaxDevices == 2
MaxArgs == 2

\* ------------------------------------------------------------------------
\* Values
\* ------------------------------------------------------------------------
Envs == {"e1", "e2"}

\* Python's None for an event and for the wait_for argument
NoEvent == 0

\* Python's None for local_size is the empty tuple, a given size n is <<n>>
NoLocalSize == <<>>

Range(s) == {s[i] : i \in DOMAIN s}

\* the lists of environments a caller passes (an environment may be named twice)
EnvLists == UNION {[1..n -> Envs] : n \in 1..MaxEnvs}

\* the kernels mapping: one compiled kernel per environment it has an entry for
KernelOf(env) == <<"kernel", env>>

KernelMaps == {[e \in D |-> KernelOf(e)] : D \in {Envs, {"e1"}}}

\* kernel.get_work_group_info(PREFERRED_WORK_GROUP_SIZE_MULTIPLE, device)
PreferredWorkGroupSizeMultiple(kernel, env) == IF env = "e1" THEN 32 ELSE 16

\* the mappings of kernel arguments (InputBuffer, OutputBuffer, Scalar,
\* LocalMemory) the model runs with
KernelDataSet == { <<"Scalar", "LocalMemory">>,
                   <<"InputBuffer", "OutputBuffer", "Scalar">> }

NmrInstancesSet == 0..MaxInstances

\* LoadBalancer.get_division: every division that satisfies the interface
\* contract (same length and order as the environments; batches contiguous,
\* ordered, disjoint, union [0, nmr_instances); a batch may be empty)
ConformingDivisions(n, N) ==
    { [i \in 1..n |-> <<c[i - 1], c[i]>>] :
        c \in {d \in [0..n -> 0..N] :
                  /\ d[0] = 0
                  /\ d[n] = N
                  /\ \A i \in 1..n : d[i - 1] <= d[i]} }

VARIABLES
    \* arguments of MultiDeviceProcessor.__init__
    kernels, kernel_data, cl_environments, batches, nmr_instances,
    use_local_reduction, local_size,
    \* MultiDeviceProcessor._subprocessors
    subprocessors,
    \* the host program: position, running call and its frame; base is the number
    \* of launches enqueued before the running call, calls the number of process
    \* calls made
    pc, caller, idx, is_blocking, pb_blocking, wait_for, events, result, lastOp,
    base, calls, trace,
    \* the device side: events and the launches enqueued
    evs, launches,
    \* the discovery: the devices of the system, the call of the factory with
    \* its outcome, and the memory flags asked of a discovered environment
    devices, discovery, mem_flags

argVars == <<kernels, kernel_data, cl_environments, batches, nmr_instances,
             use_local_reduction, local_size>>

discVars == <<devices, discovery, mem_flags>>

\* what the engine is built from: the arguments of its constructor, and the
\* discovery that came before
ctorVars == <<argVars, discVars>>

hostVars == <<pc, caller, idx, is_blocking, pb_blocking, wait_for, events, result,
              lastOp, base, calls, trace>>

devVars == <<evs, launches>>

vars == <<ctorVars, subprocessors, hostVars, devVars>>

EmptyMap == [e \in {} |-> NoEvent]

\* dict.update
Update(d, u) == [e \in (DOMAIN d) \cup (DOMAIN u) |-> IF e \in DOMAIN u THEN u[e] ELSE d[e]]

InitWith(envLists, instances, reductions, localSizes, kernelData, kernelMaps) ==
    /\ cl_environments \in envLists
    /\ nmr_instances \in instances
    /\ batches \in ConformingDivisions(Len(cl_environments), nmr_instances)
    /\ use_local_reduction \in reductions
    /\ local_size \in localSizes
    /\ kernel_data \in kernelData
    /\ kernels \in kernelMaps
    /\ subprocessors = <<>>
    /\ pc = "new"
    /\ caller = "client"
    /\ idx = 0
    /\ is_blocking = FALSE
    /\ pb_blocking = FALSE
    /\ wait_for = NoEvent
    /\ events = EmptyMap
    /\ result = EmptyMap
    /\ lastOp = "none"
    /\ base = 0
    /\ calls = 0
    /\ trace = <<>>
    /\ evs = <<>>
    /\ launches = <<>>

\* no call of the factory made
NoDiscovery == [mode |-> "none"]

\* the engine runs start from environments at hand: no discovery is made
DiscoveryNotRun ==
    /\ devices = <<>>
    /\ discovery = NoDiscovery
    /\ mem_flags = <<>>

\* the engine run over every environment list and division, with local
\* reduction at the device's preferred workgroup size
Init ==
    /\ InitWith(EnvLists, NmrInstancesSet, {TRUE}, {NoLocalSize}, KernelDataSet, KernelMaps)
    /\ DiscoveryNotRun

\* the engine run over the launch sizes: with and without local reduction,
\* explicit local sizes (None, 2, 64), and the instance counts 8 and 10
SizesEnvLists == { <<"e1">>, <<"e2">>, <<"e1", "e2">> }

SizesInstances == {5, 8, 10}

SizesLocalSizes == {NoLocalSize, <<2>>, <<64>>}

SizesKernelData == { <<"InputBuffer", "Scalar">> }

InitSizes ==
    /\ InitWith(SizesEnvLists, SizesInstances, BOOLEAN, SizesLocalSizes, SizesKernelData,
                KernelMaps)
    /\ DiscoveryNotRun

\* ------------------------------------------------------------------------
\* MultiDeviceProcessor.__init__
\* ------------------------------------------------------------------------

\* Python truth value of local_size ("if local_size:")
Truthy(ls) == Len(ls) > 0 /\ ls[1] # 0

WorkgroupSize(kernel, env, ulr, ls) ==
    IF ulr
    THEN IF Truthy(ls) THEN ls[1]
         ELSE PreferredWorkGroupSizeMultiple(kernel, env)
    ELSE 1

\* d.get_scalar_arg_dtypes() of one kernel argument
GetScalarArgDtypes(kind) ==
    IF kind = "Scalar" THEN <<"dtype">> ELSE <<"None">>

\* ProcessBatch._flatten_list
RECURSIVE FlattenList(_)
FlattenList(l) == IF l = <<>> THEN <<>> ELSE Head(l) \o FlattenList(Tail(l))

\* ProcessBatch.__init__
NewProcessBatch(kernel, kd, env, batch_range, workgroup_size) ==
    [kernel |-> kernel,
     cl_environment |-> env,
     batch_range |-> batch_range,
     workgroup_size |-> workgroup_size,
     scalar_arg_dtypes |-> FlattenList([i \in DOMAIN kd |-> GetScalarArgDtypes(kd[i])])]

\* mutants of the test of line 72
NonEmptyBatchOffByOne(batch) == batch[2] - batch[1] > 1

NonEmptyBatchOrEmpty(batch) == batch[2] - batch[1] >= 0

\* line 72: batch_end - batch_start > 0
NonEmptyBatch(batch) == batch[2] - batch[1] > 0

\* the loop of lines 59-74 over the environments from position ind on
RECURSIVE BuildSubprocessors(_, _)
BuildSubprocessors(ind, acc) ==
    IF ind > Len(cl_environments) THEN acc
    ELSE LET env == cl_environments[ind]
             kernel == kernels[env]
             wg == WorkgroupSize(kernel, env, use_local_reduction, local_size)
         IN IF NonEmptyBatch(batches[ind])
            THEN BuildSubprocessors(ind + 1,
                     Append(acc, NewProcessBatch(kernel, kernel_data, env, batches[ind], wg)))
            ELSE BuildSubprocessors(ind + 1, acc)

\* kernels[cl_environment] raises KeyError for an environment without an entry
KernelLookupFails == \E ind \in DOMAIN cl_environments : cl_environments[ind] \notin DOMAIN kernels

Construct ==
    /\ pc = "new"
    /\ ~KernelLookupFails
    /\ subprocessors' = BuildSubprocessors(1, <<>>)
    /\ pc' = "idle"
    /\ UNCHANGED <<ctorVars, caller, idx, is_blocking, pb_blocking, wait_for, events,
                   result, lastOp, base, calls, trace, devVars>>

ConstructRaises ==
    /\ pc = "new"
    /\ KernelLookupFails
    /\ pc' = "failed"
    /\ UNCHANGED <<ctorVars, subprocessors, caller, idx, is_blocking, pb_blocking,
                   wait_for, events, result, lastOp, base, calls, trace, devVars>>

\* ------------------------------------------------------------------------
\* The device side: events
\* ------------------------------------------------------------------------
Complete(id) == evs[id].status = "complete"

AllComplete(ids) == \A id \in ids : Complete(id)

\* an event the caller passes in wait_for: work enqueued elsewhere, not yet done
ExternalEvent == [kind |-> "external", status |-> "queued", waits |-> {}]

\* the event of a data transfer enqueued by a kernel argument
TransferEvent(wf) ==
    [kind |-> "transfer", status |-> "queued", waits |-> IF wf = NoEvent THEN {} ELSE {wf}]

\* the event of a kernel launch enqueued with the wait-list waitList
KernelEvent(waitList) == [kind |-> "kernel", status |-> "queued", waits |-> waitList]

\* KernelData.get_kernel_inputs(cl_environment, workgroup_size, batch_range,
\* is_blocking, wait_for): the launch input of one argument and the event of
\* its data transfer (the event nextId when it enqueues one, else None)
GetKernelInputs(kind, env, workgroup_size, batch_range, blocking, wf, nextId) ==
    << [input |-> [kind |-> kind, env |-> env, workgroup_size |-> workgroup_size,
                   batch_range |-> batch_range],
        is_blocking |-> blocking,
        wait_for |-> wf,
        event |-> IF kind = "InputBuffer" THEN nextId ELSE NoEvent] >>

\* lines 112-120: the loop over the kernel data from position i on; acc holds
\* the events enqueued so far, the inputs returned and the loading events
RECURSIVE GatherInputs(_, _, _, _)
GatherInputs(worker, wf, i, acc) ==
    IF i > Len(kernel_data) THEN acc
    ELSE LET inputs == GetKernelInputs(kernel_data[i], worker.cl_environment,
                                       worker.workgroup_size, worker.batch_range,
                                       FALSE, wf, Len(acc.evs) + 1)
             ev == inputs[1].event
         IN GatherInputs(worker, wf, i + 1,
                [evs |-> IF ev # NoEvent THEN Append(acc.evs, TransferEvent(wf)) ELSE acc.evs,
                 kernel_inputs |-> acc.kernel_inputs \o inputs,
                 loading_events |-> IF ev # NoEvent THEN Append(acc.loading_events, ev)
                                    ELSE acc.loading_events])

\* mutant: the global size without the workgroup factor
GlobalSizeInstancesOnly(worker) == worker.batch_range[2] - worker.batch_range[1]

\* lines 122-127: the sizes of the launch
GlobalSize(worker) ==
    (worker.batch_range[2] - worker.batch_range[1]) * worker.workgroup_size

\* mutant: the kernel enqueued with work groups of one work item
LocalSizeOne(worker) == 1

LocalSize(worker) == worker.workgroup_size

\* the work groups the device runs for a launch: the global size divided by
\* the local size
NmrWorkGroups(global_size, ls) == global_size \div ls

\* what a launch computes: work group g works on the g-th instance of the batch
\* range the inputs were sliced to, and the output for instance i depends only
\* on the inputs of instance i: its index in every kernel argument
LaunchOutputs(env, global_size, ls, inputs) ==
    LET batch_start == inputs[1].input.batch_range[1]
    IN [i \in {batch_start + g : g \in 0..(NmrWorkGroups(global_size, ls) - 1)} |->
           [instance |-> i,
            env |-> env,
            args |-> [k \in DOMAIN inputs |-> inputs[k].input.kind]]]

\* the launch of a ProcessBatch built for instance i alone, range [i, i + 1),
\* on the environment env
AloneOutputs(env, i) ==
    LET kernel == kernels[env]
        worker == NewProcessBatch(kernel, kernel_data, env, <<i, i + 1>>,
                      WorkgroupSize(kernel, env, use_local_reduction, local_size))
        g == GatherInputs(worker, NoEvent, 1,
                 [evs |-> <<>>, kernel_inputs |-> <<>>, loading_events |-> <<>>])
    IN LaunchOutputs(env, GlobalSize(worker), LocalSize(worker), g.kernel_inputs)

\* mutant: the kernel enqueued without a wait-list
LaunchWaitListNone(loading_events) == {}

\* line 129: the wait-list the kernel is enqueued with
LaunchWaitList(loading_events) == Range(loading_events)

\* ------------------------------------------------------------------------
\* ProcessBatch
\* ------------------------------------------------------------------------
CurLaunch == launches[Len(launches)]

\* the wait_for argument a caller passes: None or an event of other work
WaitForChoices == {"none", "event"}

\* the events of work the caller enqueued elsewhere
Externals == {id \in DOMAIN evs : evs[id].kind = "external"}

\* the frame of a call the client makes: its arguments, and nothing returned yet;
\* the event passed as wait_for is the caller's one external event
EnterCall(who, i, b, pb, w) ==
    /\ caller' = who
    /\ idx' = i
    /\ is_blocking' = b
    /\ pb_blocking' = pb
    /\ IF w = "event"
       THEN IF Externals = {}
            THEN /\ evs' = Append(evs, ExternalEvent)
                 /\ wait_for' = Len(evs) + 1
            ELSE /\ evs' = evs
                 /\ wait_for' = CHOOSE id \in Externals : TRUE
       ELSE /\ evs' = evs
            /\ wait_for' = NoEvent
    /\ events' = EmptyMap
    /\ result' = EmptyMap
    /\ base' = Len(launches)

\* ProcessBatch.process called by the client on one of the subprocessors
PBCall(i, b, w) ==
    /\ pc = "idle"
    /\ i \in DOMAIN subprocessors
    /\ Len(launches) + 1 <= MaxLaunches
    /\ calls < MaxCalls
    /\ EnterCall("client", i, b, b, w)
    /\ calls' = calls + 1
    /\ lastOp' = "none"
    /\ trace' = <<>>
    /\ pc' = "pb_launch"
    /\ UNCHANGED <<ctorVars, subprocessors, launches>>

\* ProcessBatch.process, lines 112-129: gather the kernel inputs, enqueue the kernel
PBLaunch ==
    /\ pc = "pb_launch"
    /\ LET worker == subprocessors[idx]
           g == GatherInputs(worker, wait_for, 1,
                             [evs |-> evs, kernel_inputs |-> <<>>, loading_events |-> <<>>])
           waitList == LaunchWaitList(g.loading_events)
       IN /\ evs' = Append(g.evs, KernelEvent(waitList))
          /\ launches' = Append(launches,
                [proc |-> idx,
                 env |-> worker.cl_environment,
                 kernel |-> worker.kernel,
                 global_size |-> GlobalSize(worker),
                 local_size |-> LocalSize(worker),
                 inputs |-> g.kernel_inputs,
                 wait_list |-> waitList,
                 event |-> Len(g.evs) + 1])
    /\ trace' = Append(trace, <<"launch", idx>>)
    /\ pc' = "pb_launched"
    /\ UNCHANGED <<ctorVars, subprocessors, caller, idx, is_blocking, pb_blocking,
                   wait_for, events, result, lastOp, base, calls>>

\* mutant: the rejection is swallowed and the loop of
\* MultiDeviceProcessor.process goes on with the flush and the next worker
PBLaunchRejectedSwallowed ==
    /\ pc = "pb_launch"
    /\ LET g == GatherInputs(subprocessors[idx], wait_for, 1,
                             [evs |-> evs, kernel_inputs |-> <<>>, loading_events |-> <<>>])
       IN evs' = g.evs
    /\ trace' = Append(trace, <<"rejected", idx>>)
    /\ pc' = IF caller = "client" THEN "idle" ELSE "mp_flush"
    /\ lastOp' = IF caller = "client" THEN "raised" ELSE lastOp
    /\ UNCHANGED <<ctorVars, subprocessors, caller, idx, is_blocking, pb_blocking,
                   wait_for, events, result, base, calls, launches>>

\* ProcessBatch.process, lines 112-129, when the driver rejects the launch: the
\* inputs were gathered, the kernel call raises and nothing catches the
\* exception, neither here nor in MultiDeviceProcessor.process (lines 78-80);
\* the call ends without a flush and without a result
PBLaunchRejected ==
    /\ pc = "pb_launch"
    /\ LET g == GatherInputs(subprocessors[idx], wait_for, 1,
                             [evs |-> evs, kernel_inputs |-> <<>>, loading_events |-> <<>>])
       IN evs' = g.evs
    /\ trace' = Append(trace, <<"rejected", idx>>)
    /\ pc' = "idle"
    /\ lastOp' = "raised"
    /\ UNCHANGED <<ctorVars, subprocessors, caller, idx, is_blocking, pb_blocking,
                   wait_for, events, result, base, calls, launches>>

\* line 134: the map returned by ProcessBatch.process
PBResult(worker, event) == [e \in {worker.cl_environment} |-> event]

\* mutant: the return without event.wait()
PBReturnNoWait ==
    /\ pc = "pb_launched"
    /\ LET ret == PBResult(subprocessors[idx], CurLaunch.event)
       IN IF caller = "client"
          THEN /\ result' = ret
               /\ lastOp' = "pb_process"
               /\ pc' = "idle"
               /\ UNCHANGED events
          ELSE /\ events' = Update(events, ret)
               /\ pc' = "mp_flush"
               /\ UNCHANGED <<result, lastOp>>
    /\ UNCHANGED <<ctorVars, subprocessors, caller, idx, is_blocking, pb_blocking,
                   wait_for, base, calls, trace, devVars>>

\* lines 131-134: event.wait() when blocking, then the return of
\* ProcessBatch.process: to the client, or into line 79 of
\* MultiDeviceProcessor.process (events.update)
PBReturn ==
    /\ pc = "pb_launched"
    /\ pb_blocking => Complete(CurLaunch.event)
    /\ LET ret == PBResult(subprocessors[idx], CurLaunch.event)
       IN IF caller = "client"
          THEN /\ result' = ret
               /\ lastOp' = "pb_process"
               /\ pc' = "idle"
               /\ UNCHANGED events
          ELSE /\ events' = Update(events, ret)
               /\ pc' = "mp_flush"
               /\ UNCHANGED <<result, lastOp>>
    /\ UNCHANGED <<ctorVars, subprocessors, caller, idx, is_blocking, pb_blocking,
                   wait_for, base, calls, trace, devVars>>

\* ProcessBatch.flush called by the client
PBFlush(i) ==
    /\ pc = "idle"
    /\ i \in DOMAIN subprocessors
    /\ EnterCall("client", i, FALSE, FALSE, "none")
    /\ trace' = << <<"flush", i>> >>
    /\ lastOp' = "pb_flush"
    /\ UNCHANGED <<ctorVars, subprocessors, pc, calls, launches>>

\* ProcessBatch.finish called by the client
PBFinishCall(i) ==
    /\ pc = "idle"
    /\ i \in DOMAIN subprocessors
    /\ EnterCall("client", i, FALSE, FALSE, "none")
    /\ lastOp' = "none"
    /\ trace' = <<>>
    /\ pc' = "finish"
    /\ UNCHANGED <<ctorVars, subprocessors, calls, launches>>

\* the commands enqueued on the queue of an environment
QueueEvents(env) == {launches[k].event : k \in {j \in DOMAIN launches : launches[j].env = env}}

\* mutant: finish() that returns without waiting for the queue (a flush)
FinishWorkerNoWait ==
    /\ pc = "finish"
    /\ trace' = Append(trace, <<"finish", idx>>)
    /\ IF caller = "client"
       THEN /\ pc' = "idle"
            /\ lastOp' = "pb_finish"
            /\ idx' = idx
       ELSE /\ idx' = idx + 1
            /\ pc' = IF idx + 1 > Len(subprocessors) THEN "idle" ELSE "finish"
            /\ lastOp' = IF idx + 1 > Len(subprocessors) THEN "finish" ELSE lastOp
    /\ UNCHANGED <<ctorVars, subprocessors, caller, is_blocking, pb_blocking, wait_for,
                   events, result, base, calls, devVars>>

\* queue.finish() of the worker at idx: blocks until the queue has drained
FinishWorker ==
    /\ pc = "finish"
    /\ AllComplete(QueueEvents(subprocessors[idx].cl_environment))
    /\ trace' = Append(trace, <<"finish", idx>>)
    /\ IF caller = "client"
       THEN /\ pc' = "idle"
            /\ lastOp' = "pb_finish"
            /\ idx' = idx
       ELSE /\ idx' = idx + 1
            /\ pc' = IF idx + 1 > Len(subprocessors) THEN "idle" ELSE "finish"
            /\ lastOp' = IF idx + 1 > Len(subprocessors) THEN "finish" ELSE lastOp
    /\ UNCHANGED <<ctorVars, subprocessors, caller, is_blocking, pb_blocking, wait_for,
                   events, result, base, calls, devVars>>

\* ------------------------------------------------------------------------
\* MultiDeviceProcessor
\* ------------------------------------------------------------------------

\* line 79: worker.process(wait_for=wait_for); is_blocking is not handed on,
\* the worker runs with its default
ForwardedBlocking(b) == FALSE

\* MultiDeviceProcessor.process, lines 77-78: the call and the entry of the loop
MPCall(b, w) ==
    /\ pc = "idle"
    /\ Len(launches) + Len(subprocessors) <= MaxLaunches
    /\ calls < MaxCalls
    /\ EnterCall("multi", 1, b, ForwardedBlocking(b), w)
    /\ calls' = calls + 1
    /\ lastOp' = "none"
    /\ trace' = <<>>
    /\ pc' = IF Len(subprocessors) = 0 THEN "mp_return" ELSE "pb_launch"
    /\ UNCHANGED <<ctorVars, subprocessors, launches>>

\* mutant: the loop goes on to the next worker without the flush
MPFlushSkipped ==
    /\ pc = "mp_flush"
    /\ idx' = idx + 1
    /\ pc' = IF idx + 1 > Len(subprocessors) THEN "mp_return" ELSE "pb_launch"
    /\ UNCHANGED <<ctorVars, subprocessors, caller, is_blocking, pb_blocking, wait_for,
                   events, result, lastOp, base, calls, trace, devVars>>

\* line 80: worker.flush(), then the next worker
MPFlush ==
    /\ pc = "mp_flush"
    /\ trace' = Append(trace, <<"flush", idx>>)
    /\ idx' = idx + 1
    /\ pc' = IF idx + 1 > Len(subprocessors) THEN "mp_return" ELSE "pb_launch"
    /\ UNCHANGED <<ctorVars, subprocessors, caller, is_blocking, pb_blocking, wait_for,
                   events, result, lastOp, base, calls, devVars>>

\* line 81: return events
MPReturn ==
    /\ pc = "mp_return"
    /\ result' = events
    /\ lastOp' = "process"
    /\ pc' = "idle"
    /\ UNCHANGED <<ctorVars, subprocessors, caller, idx, is_blocking, pb_blocking,
                   wait_for, events, base, calls, trace, devVars>>

\* MultiDeviceProcessor.flush, lines 83-85
MFlush ==
    /\ pc = "idle"
    /\ EnterCall("multi", Len(subprocessors) + 1, FALSE, FALSE, "none")
    /\ trace' = [i \in DOMAIN subprocessors |-> <<"flush", i>>]
    /\ lastOp' = "flush"
    /\ UNCHANGED <<ctorVars, subprocessors, pc, calls, launches>>

\* MultiDeviceProcessor.finish, lines 87-89: the call and the entry of the loop
MFinishCall ==
    /\ pc = "idle"
    /\ EnterCall("multi", 1, FALSE, FALSE, "none")
    /\ trace' = <<>>
    /\ pc' = IF Len(subprocessors) = 0 THEN "idle" ELSE "finish"
    /\ lastOp' = IF Len(subprocessors) = 0 THEN "finish" ELSE "none"
    /\ UNCHANGED <<ctorVars, subprocessors, calls, launches>>

\* ------------------------------------------------------------------------
\* The client's kernel data mapping
\* ------------------------------------------------------------------------

\* the kinds of argument a client adds to its mapping
AddedKinds == {"Scalar"}

\* the client adds an entry to the kernel_data dict it built the processor
\* from; line 72 passed kernel_data.values(), a view of that dict, and line 105
\* kept it, so the workers iterate over the dict as it is when process runs
MutateKernelData(kind) ==
    /\ pc = "idle"
    /\ Len(kernel_data) < MaxArgs
    /\ kernel_data' = Append(kernel_data, kind)
    /\ UNCHANGED <<kernels, cl_environments, batches, nmr_instances, use_local_reduction,
                   local_size, discVars, subprocessors, hostVars, devVars>>

\* ------------------------------------------------------------------------
\* The device
\* ------------------------------------------------------------------------

\* the work the caller's wait_for event stands for finishes
ExternalSignal(id) ==
    /\ evs[id].kind = "external"
    /\ evs[id].status = "queued"
    /\ evs' = [evs EXCEPT ![id].status = "complete"]
    /\ UNCHANGED <<ctorVars, subprocessors, hostVars, launches>>

\* a data transfer runs once the events it waits for have signaled
TransferComplete(id) ==
    /\ evs[id].kind = "transfer"
    /\ evs[id].status = "queued"
    /\ AllComplete(evs[id].waits)
    /\ evs' = [evs EXCEPT ![id].status = "complete"]
    /\ UNCHANGED <<ctorVars, subprocessors, hostVars, launches>>

\* the kernels enqueued on the same queue before the kernel with event id
EarlierInQueue(id) ==
    {launches[j].event : j \in {k \in DOMAIN launches :
        /\ launches[k].event < id
        /\ \E m \in DOMAIN launches : launches[m].event = id /\ launches[m].env = launches[k].env}}

\* a kernel begins executing once the events of its wait-list have signaled and
\* the kernels before it in its (in-order) queue have completed
KernelStart(id) ==
    /\ evs[id].kind = "kernel"
    /\ evs[id].status = "queued"
    /\ AllComplete(evs[id].waits)
    /\ AllComplete(EarlierInQueue(id))
    /\ evs' = [evs EXCEPT ![id].status = "running"]
    /\ UNCHANGED <<ctorVars, subprocessors, hostVars, launches>>

KernelComplete(id) ==
    /\ evs[id].kind = "kernel"
    /\ evs[id].status = "running"
    /\ evs' = [evs EXCEPT ![id].status = "complete"]
    /\ UNCHANGED <<ctorVars, subprocessors, hostVars, launches>>

\* ------------------------------------------------------------------------
\* CLEnvironmentFactory (cl_environments.py)
\* ------------------------------------------------------------------------

\* cl.get_platforms(): the platforms of the system, in enumeration order
Platforms == <<"p1", "p2">>

DeviceTypes == {"GPU", "CPU", "ACCELERATOR"}

\* a device: its platform, its type, whether it supports double precision, and
\* whether cl.Context([device]) succeeds on it (else it raises cl.RuntimeError)
DeviceSet ==
    [platform : Range(Platforms), type : DeviceTypes, double : BOOLEAN, context : BOOLEAN]

\* the devices of a system: at most MaxDevices, listed platform by platform
DeviceLists ==
    {ds \in UNION {[1..n -> DeviceSet] : n \in 0..MaxDevices} :
        \A i \in DOMAIN ds : \A j \in DOMAIN ds :
            (i < j /\ ds[i].platform = "p2") => ds[j].platform = "p2"}

\* platform.get_devices(device_type=device_type): the devices of the platform
\* of that type, in device order, named by their position in devices;
\* device_type "ALL" is the default of get_devices()
GetDevices(platform, device_type) ==
    SelectSeq([i \in DOMAIN devices |-> i],
              LAMBDA i : /\ devices[i].platform = platform
                         /\ device_type = "ALL" \/ devices[i].type = device_type)

\* utils.device_supports_double(dev)
DeviceSupportsDouble(dev) == devices[dev].double

\* CLEnvironment(platform, dev, ...), lines 14-32: the environment of a device,
\* with a context of its own
CLEnvironment(dev) == [platform |-> devices[dev].platform, device |-> dev]

\* mutant: a device is taken without the test of double precision
SuitableAnyPrecision(dev) == devices[dev].context

\* lines 223-228 and 266-271: a device is taken when it supports double
\* precision and the construction of its environment does not raise
Suitable(dev) == DeviceSupportsDouble(dev) /\ devices[dev].context

\* lines 222-230: the loop of single_device over the candidates devs: the
\* environment of the first suitable device, or nothing
RECURSIVE FirstSuitable(_)
FirstSuitable(devs) ==
    IF devs = <<>> THEN <<>>
    ELSE IF Suitable(Head(devs)) THEN << CLEnvironment(Head(devs)) >>
    ELSE FirstSuitable(Tail(devs))

\* lines 265-271: the loop of all_devices over the devices of one platform
RECURSIVE AllSuitable(_)
AllSuitable(devs) ==
    IF devs = <<>> THEN <<>>
    ELSE (IF Suitable(Head(devs)) THEN << CLEnvironment(Head(devs)) >> ELSE <<>>)
         \o AllSuitable(Tail(devs))

\* mutant: a first candidate that is not taken ends the search
SingleDeviceResultNoSkip(cl_device_type, platform, fallback) ==
    LET p == IF platform = "None" THEN Platforms[1] ELSE platform
        typed == GetDevices(p, cl_device_type)
        devs == IF typed = <<>> /\ fallback THEN GetDevices(p, "ALL") ELSE typed
        found == IF devs # <<>> /\ ~Suitable(Head(devs)) THEN <<>> ELSE FirstSuitable(devs)
    IN IF typed = <<>> /\ ~fallback
       THEN [outcome |-> "ValueError: No devices of the specified type", envs |-> <<>>]
       ELSE IF found = <<>>
       THEN [outcome |-> "ValueError: No suitable OpenCL device found", envs |-> <<>>]
       ELSE [outcome |-> "returned", envs |-> found]

\* single_device, lines 208-230; platform "None" is the first platform
SingleDeviceResult(cl_device_type, platform, fallback) ==
    LET p == IF platform = "None" THEN Platforms[1] ELSE platform
        typed == GetDevices(p, cl_device_type)
        devs == IF typed = <<>> /\ fallback THEN GetDevices(p, "ALL") ELSE typed
        found == FirstSuitable(devs)
    IN IF typed = <<>> /\ ~fallback
       THEN [outcome |-> "ValueError: No devices of the specified type", envs |-> <<>>]
       ELSE IF found = <<>>
       THEN [outcome |-> "ValueError: No suitable OpenCL device found", envs |-> <<>>]
       ELSE [outcome |-> "returned", envs |-> found]

\* all_devices, lines 254-272, over the platforms ps; cl_device_type "None"
\* takes the devices of every type
RECURSIVE AllDevicesList(_, _)
AllDevicesList(cl_device_type, ps) ==
    IF ps = <<>> THEN <<>>
    ELSE AllSuitable(GetDevices(Head(ps),
                                IF cl_device_type # "None" THEN cl_device_type ELSE "ALL"))
         \o AllDevicesList(cl_device_type, Tail(ps))

AllDevicesResult(cl_device_type, platform) ==
    [outcome |-> "returned",
     envs |-> AllDevicesList(cl_device_type,
                             IF platform = "None" THEN Platforms ELSE <<platform>>)]

\* the arguments a caller passes
RequestedTypes == {"GPU", "CPU"}

RequestedPlatforms == {"None"} \cup Range(Platforms)

\* CLEnvironmentFactory.single_device(cl_device_type, platform,
\* fallback_to_any_device_type=fallback)
SingleDevice(cl_device_type, platform, fallback) ==
    /\ discovery = NoDiscovery
    /\ LET r == SingleDeviceResult(cl_device_type, platform, fallback)
       IN discovery' = [mode |-> "single", cl_device_type |-> cl_device_type,
                        platform |-> platform, fallback |-> fallback,
                        outcome |-> r.outcome, envs |-> r.envs]
    /\ UNCHANGED <<argVars, devices, mem_flags, subprocessors, hostVars, devVars>>

\* CLEnvironmentFactory.all_devices(cl_device_type, platform); it has no
\* fallback parameter
AllDevices(cl_device_type, platform) ==
    /\ discovery = NoDiscovery
    /\ LET r == AllDevicesResult(cl_device_type, platform)
       IN discovery' = [mode |-> "all", cl_device_type |-> cl_device_type,
                        platform |-> platform, fallback |-> FALSE,
                        outcome |-> r.outcome, envs |-> r.envs]
    /\ UNCHANGED <<argVars, devices, mem_flags, subprocessors, hostVars, devVars>>

\* ------------------------------------------------------------------------
\* CLEnvironment: the memory flags
\* ------------------------------------------------------------------------

\* cl.mem_flags: a flag word is the set of its bits, a | b is their union
BitOr(a, b) == a \cup b

AccessModes == {"READ_ONLY", "WRITE_ONLY", "READ_WRITE"}

HostPtrModes == {"COPY_HOST_PTR", "USE_HOST_PTR"}

\* mutant: every device that is not a CPU is taken for a GPU
IsGpuNotCpu(env) == devices[env.device].type # "CPU"

\* CLEnvironment.is_gpu, lines 111-118
IsGpu(env) == devices[env.device].type = "GPU"

\* lines 42-51
GetReadOnlyClMemFlags(env) ==
    IF IsGpu(env) THEN BitOr({"READ_ONLY"}, {"COPY_HOST_PTR"})
    ELSE BitOr({"READ_ONLY"}, {"USE_HOST_PTR"})

\* lines 53-62
GetReadWriteClMemFlags(env) ==
    IF IsGpu(env) THEN BitOr({"READ_WRITE"}, {"COPY_HOST_PTR"})
    ELSE BitOr({"READ_WRITE"}, {"USE_HOST_PTR"})

\* lines 64-73
GetWriteOnlyClMemFlags(env) ==
    IF IsGpu(env) THEN BitOr({"WRITE_ONLY"}, {"COPY_HOST_PTR"})
    ELSE BitOr({"WRITE_ONLY"}, {"USE_HOST_PTR"})

\* the three selectors called on the k-th environment a discovery returned
GetMemFlags(k) ==
    /\ discovery.mode # "none"
    /\ discovery.outcome = "returned"
    /\ k \in DOMAIN discovery.envs
    /\ mem_flags = <<>>
    /\ LET env == discovery.envs[k]
       IN mem_flags' = [env |-> env,
                        read_only |-> GetReadOnlyClMemFlags(env),
                        read_write |-> GetReadWriteClMemFlags(env),
                        write_only |-> GetWriteOnlyClMemFlags(env)]
    /\ UNCHANGED <<argVars, devices, discovery, subprocessors, hostVars, devVars>>

\* ------------------------------------------------------------------------
\* The specification
\* ------------------------------------------------------------------------
Next ==
    \/ Construct
    \/ ConstructRaises
    \/ \E i \in 1..MaxEnvs, b \in BOOLEAN, w \in WaitForChoices : PBCall(i, b, w)
    \/ PBLaunch
    \/ PBReturn
    \/ \E i \in 1..MaxEnvs : PBFlush(i)
    \/ \E i \in 1..MaxEnvs : PBFinishCall(i)
    \/ FinishWorker
    \/ \E b \in BOOLEAN, w \in WaitForChoices : MPCall(b, w)
    \/ MPFlush
    \/ MPReturn
    \/ MFlush
    \/ MFinishCall
    \/ \E id \in DOMAIN evs : ExternalSignal(id)
    \/ \E id \in DOMAIN evs : TransferComplete(id)
    \/ \E id \in DOMAIN evs : KernelStart(id)
    \/ \E id \in DOMAIN evs : KernelComplete(id)

Spec == Init /\ [][Next]_vars

SpecSizes == InitSizes /\ [][Next]_vars

\* the engine with the faults of its surroundings: the driver may reject a
\* launch, the client may change the kernel data mapping after construction
FaultsEnvLists == { <<"e1">>, <<"e1", "e2">> }

FaultsKernelData == { <<"InputBuffer">> }

InitFaults ==
    /\ InitWith(FaultsEnvLists, {MaxInstances}, {TRUE}, {NoLocalSize}, FaultsKernelData,
                KernelMaps)
    /\ DiscoveryNotRun

NextFaults ==
    \/ Next
    \/ PBLaunchRejected
    \/ \E kind \in AddedKinds : MutateKernelData(kind)

SpecFaults == InitFaults /\ [][NextFaults]_vars

\* the discovery of the environments on every system of at most MaxDevices
\* devices, before an engine is built
InitDiscovery ==
    /\ InitWith({<<"e1">>}, {0}, {TRUE}, {NoLocalSize}, {<<"Scalar">>},
                {[e \in Envs |-> KernelOf(e)]})
    /\ devices \in DeviceLists
    /\ discovery = NoDiscovery
    /\ mem_flags = <<>>

NextDiscovery ==
    \/ \E t \in RequestedTypes, p \in RequestedPlatforms, f \in BOOLEAN : SingleDevice(t, p, f)
    \/ \E t \in RequestedTypes \cup {"None"}, p \in RequestedPlatforms : AllDevices(t, p)
    \/ \E k \in 1..MaxDevices : GetMemFlags(k)

SpecDiscovery == InitDiscovery /\ [][NextDiscovery]_vars

TypeOK ==
    /\ pc \in {"new", "failed", "idle", "pb_launch", "pb_launched",
               "mp_flush", "mp_return", "finish"}
    /\ caller \in {"client", "multi"}
    /\ base \in 0..MaxLaunches
    /\ calls \in 0..MaxCalls
    /\ Len(launches) <= MaxLaunches
    /\ \A id \in DOMAIN evs : evs[id].status \in {"queued", "running", "complete"}

\* ------------------------------------------------------------------------
\* Properties
\* ------------------------------------------------------------------------
Constructed == pc \notin {"new", "failed"}

InBatch(i, batch) == batch[1] <= i /\ i < batch[2]

\* the launches issued by the running (or the last) call
CallLaunches == {j \in DOMAIN launches : j > base}

Returned(op) == pc = "idle" /\ lastOp = op

\* C1: the batch ranges of the ProcessBatch objects cover every instance index
\* of [0, nmr_instances) exactly once, and no two launches of one call are
\* on the same instance index.
C1_BatchesPartitionInstances ==
    Constructed =>
        /\ \A i \in 0..(nmr_instances - 1) :
              Cardinality({k \in DOMAIN subprocessors :
                              InBatch(i, subprocessors[k].batch_range)}) = 1
        /\ \A j, k \in CallLaunches :
              j # k => \A i \in 0..(nmr_instances - 1) :
                  ~(/\ InBatch(i, subprocessors[launches[j].proc].batch_range)
                    /\ InBatch(i, subprocessors[launches[k].proc].batch_range))

C1_Witness ==
    /\ Returned("process")
    /\ Len(subprocessors) = 2
    /\ Len(launches) = 2
    /\ nmr_instances = 2

\* C2: when MultiDeviceProcessor.process(is_blocking=True) returns, the
\* completion event of every launch it issued has signaled.
C2_BlockingProcessReturnsComplete ==
    (Returned("process") /\ is_blocking) =>
        \A j \in CallLaunches : Complete(launches[j].event)

\* C3: the workgroup size of a processor is the explicit local_size whenever
\* one is given, else the preferred multiple of the kernel on the device when
\* use_local_reduction is set, else 1.
C3_WorkgroupSizeChosen ==
    Constructed =>
        \A k \in DOMAIN subprocessors :
            subprocessors[k].workgroup_size =
                IF local_size # NoLocalSize THEN local_size[1]
                ELSE IF use_local_reduction
                     THEN PreferredWorkGroupSizeMultiple(subprocessors[k].kernel,
                                                         subprocessors[k].cl_environment)
                     ELSE 1

\* the events the kernel arguments of a launch returned
ArgEvents(l) == {l.inputs[i].event : i \in DOMAIN l.inputs} \ {NoEvent}

\* C4: a kernel is enqueued with a wait-list of every non-null event its
\* arguments returned, the arguments are requested non-blocking, and the kernel
\* does not begin executing before all of those events have signaled.
C4_KernelWaitsForTransfers ==
    \A j \in DOMAIN launches :
        LET l == launches[j]
        IN /\ l.wait_list = ArgEvents(l)
           /\ \A i \in DOMAIN l.inputs : ~l.inputs[i].is_blocking
           /\ evs[l.event].status # "queued" => AllComplete(ArgEvents(l))

C4_Witness ==
    \E j \in DOMAIN launches :
        /\ Cardinality(ArgEvents(launches[j])) >= 1
        /\ evs[launches[j].event].status = "running"
        /\ pc = "idle"

\* C5: every launch has global size (batch_end - batch_start) * workgroup_size
\* and local size workgroup_size; one environment with 8 instances and no local
\* reduction gives one launch of global size 8 and local size 1, and local
\* reduction with local_size 64 over 10 instances on one environment gives
\* global size 640 and local size 64.
C5_LaunchSizes ==
    /\ \A j \in DOMAIN launches :
          LET l == launches[j]
              w == subprocessors[l.proc]
          IN /\ l.global_size = (w.batch_range[2] - w.batch_range[1]) * w.workgroup_size
             /\ l.local_size = w.workgroup_size
    /\ (Len(cl_environments) = 1 /\ nmr_instances = 8 /\ ~use_local_reduction) =>
          /\ Returned("process") => Cardinality(CallLaunches) = 1
          /\ \A j \in DOMAIN launches :
                launches[j].global_size = 8 /\ launches[j].local_size = 1
    /\ (Len(cl_environments) = 1 /\ nmr_instances = 10 /\ use_local_reduction
          /\ local_size = <<64>>) =>
          \A j \in DOMAIN launches :
              launches[j].global_size = 640 /\ launches[j].local_size = 64

C5_Witness ==
    /\ Returned("process")
    /\ Len(cl_environments) = 1
    /\ \E j \in CallLaunches : launches[j].global_size = 640 /\ launches[j].local_size = 64

\* the positions of the environment list whose batch is non-empty
NonEmptyPositions ==
    {i \in DOMAIN cl_environments : batches[i][2] - batches[i][1] > 0}

\* the k-th of them
PositionOf(k) ==
    CHOOSE i \in NonEmptyPositions : Cardinality({j \in NonEmptyPositions : j <= i}) = k

\* the environments that have a non-empty batch
WorkingEnvs == {cl_environments[i] : i \in NonEmptyPositions}

\* C6: there is exactly one ProcessBatch per environment with a non-empty
\* batch, in list order, with that environment's kernel, batch range and
\* workgroup size; no launch, flush or finish is issued for an environment
\* whose batch is empty.
C6_OneProcessorPerNonEmptyBatch ==
    Constructed =>
        /\ Len(subprocessors) = Cardinality(NonEmptyPositions)
        /\ \A k \in DOMAIN subprocessors :
              LET i == PositionOf(k)
                  env == cl_environments[i]
              IN /\ subprocessors[k].cl_environment = env
                 /\ subprocessors[k].kernel = kernels[env]
                 /\ subprocessors[k].batch_range = batches[i]
                 /\ subprocessors[k].workgroup_size =
                        WorkgroupSize(kernels[env], env, use_local_reduction, local_size)
        /\ \A j \in DOMAIN launches :
              /\ launches[j].proc \in DOMAIN subprocessors
              /\ launches[j].env = subprocessors[launches[j].proc].cl_environment
              /\ launches[j].env \in WorkingEnvs
        /\ \A t \in DOMAIN trace :
              /\ trace[t][2] \in DOMAIN subprocessors
              /\ subprocessors[trace[t][2]].cl_environment \in WorkingEnvs

C6_Witness ==
    /\ Returned("finish")
    /\ Len(cl_environments) = 2
    /\ Len(subprocessors) = 1
    /\ Len(launches) = 1
    /\ trace = << <<"finish", 1>> >>

\* C7: the map MultiDeviceProcessor.process returns has one entry per
\* constituent processor and holds the completion event of every launch of the
\* call under the environment it ran on.
C7_ResultHoldsEveryLaunch ==
    Returned("process") =>
        /\ Cardinality(DOMAIN result) = Len(subprocessors)
        /\ \A j \in CallLaunches :
              /\ launches[j].env \in DOMAIN result
              /\ result[launches[j].env] = launches[j].event

\* C8: process(is_blocking=False) and flush() return without waiting for the
\* launches (the return is enabled whatever the state of the launch), and once
\* finish() has returned every launch issued before by the processor (for
\* MultiDeviceProcessor: by every constituent processor) has completed.
C8_FinishIsSynchronizationPoint ==
    /\ (pc = "pb_launched" /\ ~pb_blocking) => ENABLED PBReturn
    /\ (pc = "idle") => ENABLED MFlush
    /\ Returned("finish") => \A j \in DOMAIN launches : Complete(launches[j].event)
    /\ Returned("pb_finish") =>
          \A j \in DOMAIN launches :
              launches[j].proc = idx => Complete(launches[j].event)

C8_Witness ==
    /\ Returned("finish")
    /\ Len(subprocessors) = 2
    /\ Len(launches) = 2
    /\ ~is_blocking

\* C9: ProcessBatch.process(is_blocking=True) returns only after the event of
\* the launch it enqueued has signaled, and blocking or not it returns a map of
\* one entry, its environment mapped to the event of that launch.
C9_ProcessBatchResult ==
    Returned("pb_process") =>
        /\ CallLaunches = {Len(launches)}
        /\ CurLaunch.proc = idx
        /\ DOMAIN result = {subprocessors[idx].cl_environment}
        /\ result[subprocessors[idx].cl_environment] = CurLaunch.event
        /\ is_blocking => Complete(CurLaunch.event)

C9_Witness ==
    /\ Returned("pb_process")
    /\ is_blocking
    /\ Cardinality(ArgEvents(CurLaunch)) >= 1

\* the calls MultiDeviceProcessor.process makes over n processors
RECURSIVE LaunchFlushSequence(_)
LaunchFlushSequence(n) ==
    IF n = 0 THEN <<>>
    ELSE LaunchFlushSequence(n - 1) \o << <<"launch", n>>, <<"flush", n>> >>

IsPrefix(s, t) == Len(s) <= Len(t) /\ \A i \in DOMAIN s : s[i] = t[i]

InMultiProcess ==
    caller = "multi" /\ pc \in {"pb_launch", "pb_launched", "mp_flush", "mp_return"}

\* C10: MultiDeviceProcessor.process issues launch(p1), flush(p1), launch(p2),
\* flush(p2), ... in the order of the processors, one launch and one flush per
\* processor per call.
C10_LaunchThenFlushInOrder ==
    /\ InMultiProcess => IsPrefix(trace, LaunchFlushSequence(Len(subprocessors)))
    /\ (InMultiProcess /\ pc = "pb_launch") => trace = LaunchFlushSequence(idx - 1)
    /\ (pc = "mp_return" \/ Returned("process")) =>
          trace = LaunchFlushSequence(Len(subprocessors))

C10_Witness ==
    /\ Returned("process")
    /\ Len(subprocessors) = 2
    /\ Len(trace) = 4


\* the outputs of an enqueued launch
OutputsOf(l) == LaunchOutputs(l.env, l.global_size, l.local_size, l.inputs)

Attempts(k) == {p \in DOMAIN trace : trace[p] \in {<<"launch", k>>, <<"rejected", k>>}}

\* C12: within one call every processor's kernel is enqueued at most once, a
\* rejected launch ends the call (the exception reaches the caller, nothing is
\* returned) and no launch or flush follows it, and the rejected kernel is
\* not enqueued.
C12_RejectedLaunchIsFatal ==
    /\ \A k \in DOMAIN subprocessors : Cardinality(Attempts(k)) <= 1
    /\ \A p \in DOMAIN trace :
          trace[p][1] = "rejected" =>
              /\ p = Len(trace)
              /\ pc = "idle"
              /\ lastOp = "raised"
              /\ result = EmptyMap
    /\ Cardinality(CallLaunches) =
          Cardinality({p \in DOMAIN trace : trace[p][1] = "launch"})

\* the second of two processors was rejected after the first was launched
C12_Witness ==
    /\ caller = "multi"
    /\ pc = "idle"
    /\ lastOp = "raised"
    /\ trace = << <<"launch", 1>>, <<"flush", 1>>, <<"rejected", 2>> >>


DiscoveryReturned == discovery.mode # "none" /\ discovery.outcome = "returned"

\* C13: every environment a discovery returns, in either mode and on the
\* fallback path too, is of a device that supports double precision.
C13_ReturnedSupportDouble ==
    DiscoveryReturned =>
        \A k \in DOMAIN discovery.envs : devices[discovery.envs[k].device].double

\* a device without double precision was passed over on the fallback path
C13_Witness ==
    /\ DiscoveryReturned
    /\ discovery.mode = "single"
    /\ discovery.fallback
    /\ Len(discovery.envs) = 1
    /\ devices[discovery.envs[1].device].type # discovery.cl_device_type
    /\ \E i \in DOMAIN devices :
          /\ i < discovery.envs[1].device
          /\ devices[i].platform = discovery.envs[1].platform
          /\ ~devices[i].double
          /\ devices[i].context


\* the platforms a discovery call looks at
TargetPlatforms ==
    IF discovery.platform # "None" THEN {discovery.platform}
    ELSE IF discovery.mode = "single" THEN {Platforms[1]}
    ELSE Range(Platforms)

\* a device class was asked for and no target platform has a device of it
NoDeviceOfRequestedType ==
    /\ discovery.mode # "none"
    /\ discovery.cl_device_type # "None"
    /\ \A p \in TargetPlatforms : GetDevices(p, discovery.cl_device_type) = <<>>

\* C14: when a device class is asked for and the target platform has no device
\* of that class, the discovery considers the devices of any class if the
\* fallback is set, and otherwise fails with the no-matching-device error
\* instead of returning a result.
C14_FallbackOrNoMatchingError ==
    NoDeviceOfRequestedType =>
        IF discovery.fallback
        THEN \/ /\ discovery.outcome = "returned"
                /\ \A k \in DOMAIN discovery.envs :
                      discovery.envs[k].platform \in TargetPlatforms
             \/ /\ discovery.outcome = "ValueError: No suitable OpenCL device found"
                /\ \A p \in TargetPlatforms :
                      \A k \in DOMAIN GetDevices(p, "ALL") :
                          ~Suitable(GetDevices(p, "ALL")[k])
        ELSE discovery.outcome = "ValueError: No devices of the specified type"


\* the devices a discovery call considers: those of the requested type on the
\* target platforms, or, on the fallback of single_device, all of the platform
Candidates ==
    LET type == IF discovery.cl_device_type = "None" THEN "ALL" ELSE discovery.cl_device_type
        typed == UNION {Range(GetDevices(p, type)) : p \in TargetPlatforms}
    IN IF typed = {} /\ discovery.fallback
       THEN UNION {Range(GetDevices(p, "ALL")) : p \in TargetPlatforms}
       ELSE typed

\* C15: a discovery call that has candidates but no eligible device among them
\* fails with the no-suitable-device error, and no discovery call, in either
\* mode, returns an empty list of environments.
C15_NoSuitableDeviceError ==
    discovery.mode # "none" =>
        /\ (Candidates # {} /\ \A dev \in Candidates : ~Suitable(dev)) =>
               discovery.outcome = "ValueError: No suitable OpenCL device found"
        /\ discovery.outcome = "returned" => discovery.envs # <<>>


\* the candidates that support double precision and whose context is constructed
EligibleCandidates == {dev \in Candidates : devices[dev].double /\ devices[dev].context}

\* C16: a candidate whose context construction fails is skipped: single_device
\* returns exactly one environment, that of the first eligible candidate in
\* device order, whenever there is one; all_devices returns exactly the
\* eligible candidates, in enumeration order.
C16_SkipFailedContexts ==
    discovery.mode # "none" =>
        /\ discovery.outcome = "returned" =>
              \A k \in DOMAIN discovery.envs :
                  discovery.envs[k] = CLEnvironment(discovery.envs[k].device)
        /\ discovery.mode = "single" =>
              /\ EligibleCandidates # {} => discovery.outcome = "returned"
              /\ discovery.outcome = "returned" =>
                    /\ Len(discovery.envs) = 1
                    /\ discovery.envs[1].device \in EligibleCandidates
                    /\ \A dev \in EligibleCandidates : discovery.envs[1].device <= dev
        /\ discovery.mode = "all" =>
              /\ discovery.outcome = "returned"
              /\ {discovery.envs[k].device : k \in DOMAIN discovery.envs} = EligibleCandidates
              /\ \A k \in DOMAIN discovery.envs : \A n \in DOMAIN discovery.envs :
                    k < n => discovery.envs[k].device < discovery.envs[n].device

\* single_device passed over a device whose context construction failed and
\* returned the next one
C16_Witness ==
    /\ DiscoveryReturned
    /\ discovery.mode = "single"
    /\ \E dev \in Candidates :
          /\ dev < discovery.envs[1].device
          /\ devices[dev].double
          /\ ~devices[dev].context


\* C17: on a GPU environment each selector returns its own access mode with
\* COPY_HOST_PTR, on every other environment its own access mode with
\* USE_HOST_PTR; never both or neither host-pointer mode, never another
\* access mode.
C17_MemFlagsPerDeviceClass ==
    mem_flags # <<>> =>
        LET gpu == devices[mem_flags.env.device].type = "GPU"
            hostPtr == IF gpu THEN "COPY_HOST_PTR" ELSE "USE_HOST_PTR"
            Selected(flags, mode) ==
                /\ flags \cap AccessModes = {mode}
                /\ flags \cap HostPtrModes = {hostPtr}
                /\ flags \subseteq AccessModes \cup HostPtrModes
        IN /\ Selected(mem_flags.read_only, "READ_ONLY")
           /\ Selected(mem_flags.read_write, "READ_WRITE")
           /\ Selected(mem_flags.write_only, "WRITE_ONLY")

\* the selectors were asked of an environment that is neither GPU nor CPU
C17_Witness ==
    /\ mem_flags # <<>>
    /\ devices[mem_flags.env.device].type = "ACCELERATOR"
    /\ "USE_HOST_PTR" \in mem_flags.write_only


\* the wait_for a launch was enqueued under, as its arguments received it
CallerEvents(l) == {l.inputs[k].wait_for : k \in DOMAIN l.inputs} \ {NoEvent}

\* C18: the wait_for of the call is handed unchanged to get_kernel_inputs of
\* every kernel argument, and neither a data transfer nor the kernel of the
\* launch begins before the events of wait_for have signaled, whatever the
\* arguments are.
C18_WorkWaitsForCallerEvents ==
    \A j \in DOMAIN launches :
        LET l == launches[j]
        IN /\ (j \in CallLaunches /\ pc \in {"pb_launched", "mp_flush", "mp_return"}) =>
                 \A k \in DOMAIN l.inputs : l.inputs[k].wait_for = wait_for
           /\ \A id \in ArgEvents(l) : Complete(id) => AllComplete(CallerEvents(l))
           /\ evs[l.event].status # "queued" => AllComplete(CallerEvents(l))


\* C19: the constructor looks up the kernel only of environments whose batch
\* is non-empty: when every environment with a non-empty batch has an entry
\* in kernels, construction does not fail.
C19_EmptyBatchKernelUntouched ==
    (\A i \in NonEmptyPositions : cl_environments[i] \in DOMAIN kernels) => pc # "failed"


\* the scalar dtype signature of the arguments a launch was bound to
InputDtypes(l) ==
    FlattenList([k \in DOMAIN l.inputs |-> GetScalarArgDtypes(l.inputs[k].input.kind)])

\* C20: the kernel inputs of every launch list the kernel arguments in the
\* order of the scalar dtype signature set at the construction of the
\* processor, whatever was done to the mapping since.
C20_InputsMatchDtypeSignature ==
    \A j \in DOMAIN launches :
        InputDtypes(launches[j]) = subprocessors[launches[j].proc].scalar_arg_dtypes

====
